---- MODULE Spec2Model ----
(***************************************************************************)
(* Model of the video-analysis backend (src/app): the in-memory stores of  *)
(* store.py, the shared ClipIndex of clip_index.py and the upload, index,  *)
(* delete and search handlers of main.py.                                  *)
(*                                                                         *)
(* Time is counted in ticks, TicksPerSec ticks to the second, so that the  *)
(* float comparisons of the code (freq 1.0, dedup window 0.5, gap 2.0,     *)
(* frame length 1.0) are exact integer comparisons.                        *)
(*                                                                         *)
(* An embedding vector is represented by where it came from (video, frame  *)
(* timestamp, patch number) and by sim, its scaled dot product with the    *)
(* embedding of the query text (100 * q . v in the code): the embedder is  *)
(* a black box, and sim is all a search reads of a stored vector.          *)
(***************************************************************************)
EXTENDS Integers, Sequences, FiniteSets, TLC

\* ------------------------------------------------------------------ bounds
TicksPerSec == 10
MaxVideos == 2
MaxFrames == 3
FramePeriod == 5
PatchesPerFrame == 2
MaxScore == 2
MaxN == 1
MaxQN == 2
BigFrame == 20
MaxHits == 4
MaxTime == 7
MaxInterval == 3

\* ------------------------------------------------------- program constants
BatchSize == 64
OverFetch == 10
FanOut == 5

VideoIds == 1..MaxVideos
Scores == 1..MaxScore
Thresholds == Scores

\* ------------------------------------------------------------- primitives
Abs(x) == IF x < 0 THEN -x ELSE x
Min(a, b) == IF a <= b THEN a ELSE b
Range(s) == {s[i] : i \in 1..Len(s)}

\* A torch tensor attribute that may be None (ClipIndex.index_features).
NoneTensor == [isNone |-> TRUE, rows |-> <<>>]
Tensor(rows) == [isNone |-> FALSE, rows |-> rows]
\* tensor.shape[0] of a tensor, 0 for None (the stored vector count)
NumVectors(f) == Len(f.rows)

\* save_thumbnail: the url is made of the video id and the timestamp
ThumbUrl(video_id, t) == <<"thumbnails", video_id, t>>
NoUrl == <<>>

\* ------------------------------------------------------ ClipIndex.search
\* similarity.topk(k): the positions of the k largest similarities, largest
\* first.  The order of equal similarities is not specified by torch; tie
\* selects one of two orders (lower position first, higher position first).
Before(sim, tie, i, j) ==
    \/ sim[i] > sim[j]
    \/ sim[i] = sim[j] /\ (IF tie = "low" THEN i < j ELSE i > j)

TopK(sim, k, tie) ==
    LET N == Len(sim)
        rank == [i \in 1..N |-> Cardinality({j \in 1..N : Before(sim, tie, j, i)})]
    IN [r \in 1..k |-> CHOOSE i \in 1..N : rank[i] = r - 1]

\* variant: only a hit of the very same timestamp counts as a duplicate
TooClose_SameInstantOnly(t, seen_times) ==
    \E q \in 1..Len(seen_times) : t = seen_times[q]

\* abs(t - seen_t) < 0.5 for some seen_t
TooClose(t, seen_times) ==
    \E q \in 1..Len(seen_times) : 2 * Abs(t - seen_times[q]) < TicksPerSec

\* variant: the loop without its threshold test
RECURSIVE Walk_NoCutoff(_, _, _, _, _, _, _, _)
Walk_NoCutoff(sim, indices, metadata, n, threshold, p, results, seen_times) ==
    IF p > Len(indices) THEN [err |-> FALSE, hits |-> results]
    ELSE LET idx == indices[p]
             score == sim[idx]
         IN IF Len(results) >= n THEN [err |-> FALSE, hits |-> results]
            ELSE IF idx > Len(metadata) THEN [err |-> TRUE, hits |-> <<>>]
            ELSE LET meta == metadata[idx]
                     t == meta.t
                 IN IF TooClose(t, seen_times)
                    THEN Walk_NoCutoff(sim, indices, metadata, n, threshold, p + 1,
                                       results, seen_times)
                    ELSE Walk_NoCutoff(sim, indices, metadata, n, threshold, p + 1,
                              Append(results,
                                     [video_id |-> meta.video_id, t |-> t,
                                      score |-> score,
                                      thumbnail_url |-> meta.thumbnail_url]),
                              Append(seen_times, t))

\* the for loop of search (lines 180-199) from candidate p on
RECURSIVE Walk(_, _, _, _, _, _, _, _)
Walk(sim, indices, metadata, n, threshold, p, results, seen_times) ==
    IF p > Len(indices) THEN [err |-> FALSE, hits |-> results]
    ELSE LET idx == indices[p]
             score == sim[idx]
         IN IF score < threshold THEN [err |-> FALSE, hits |-> results]
            ELSE IF Len(results) >= n THEN [err |-> FALSE, hits |-> results]
            ELSE IF idx > Len(metadata) THEN [err |-> TRUE, hits |-> <<>>]
            ELSE LET meta == metadata[idx]
                     t == meta.t
                 IN IF TooClose(t, seen_times)
                    THEN Walk(sim, indices, metadata, n, threshold, p + 1,
                              results, seen_times)
                    ELSE Walk(sim, indices, metadata, n, threshold, p + 1,
                              Append(results,
                                     [video_id |-> meta.video_id, t |-> t,
                                      score |-> score,
                                      thumbnail_url |-> meta.thumbnail_url]),
                              Append(seen_times, t))

\* variant: every stored vector is a candidate
TopKSize_WholeStore(n, metadata) == Len(metadata)

\* top_k = min(n * 10, len(self.index_metadata))
TopKSize(n, metadata) == Min(n * OverFetch, Len(metadata))

\* lines 172-201, given the features read at line 172 and the metadata read
\* from line 174 on; topk raises when k exceeds the number of similarities
\* or is negative
SearchFrom(features, metadata, n, threshold, tie) ==
    LET sim == [i \in 1..Len(features.rows) |-> features.rows[i].sim]
        top_k == TopKSize(n, metadata)
    IN IF top_k < 0 \/ top_k > Len(sim) THEN [err |-> TRUE, hits |-> <<>>]
       ELSE Walk(sim, TopK(sim, top_k, tie), metadata, n, threshold, 1,
                 <<>>, <<>>)

\* ClipIndex.search on an index whose two attributes do not change meanwhile
ClipSearch(features, metadata, n, threshold, tie) ==
    IF features.isNone THEN [err |-> FALSE, hits |-> <<>>]
    ELSE SearchFrom(features, metadata, n, threshold, tie)

\* ----------------------------------------------------- _cluster_to_scenes
\* sorted(raw, key=t): a stable insertion sort
RECURSIVE InsertByT(_, _)
InsertByT(s, r) ==
    IF s = <<>> THEN <<r>>
    ELSE IF s[Len(s)].t <= r.t THEN Append(s, r)
    ELSE Append(InsertByT(SubSeq(s, 1, Len(s) - 1), r), s[Len(s)])

RECURSIVE SortByT(_)
SortByT(raw) ==
    IF raw = <<>> THEN <<>>
    ELSE InsertByT(SortByT(SubSeq(raw, 1, Len(raw) - 1)), raw[Len(raw)])

\* variant: a hit is compared with the first member of the open cluster
RECURSIVE ClusterLoop_FromFirst(_, _, _, _, _)
ClusterLoop_FromFirst(sorted_raw, i, gap, clusters, cluster) ==
    IF i > Len(sorted_raw) THEN Append(clusters, cluster)
    ELSE LET r == sorted_raw[i]
         IN IF r.t - cluster[1].t <= gap
            THEN ClusterLoop_FromFirst(sorted_raw, i + 1, gap, clusters,
                                       Append(cluster, r))
            ELSE ClusterLoop_FromFirst(sorted_raw, i + 1, gap,
                                       Append(clusters, cluster), <<r>>)

\* the clustering loop (lines 214-221): clusters closed so far, the open one
RECURSIVE ClusterLoop(_, _, _, _, _)
ClusterLoop(sorted_raw, i, gap, clusters, cluster) ==
    IF i > Len(sorted_raw) THEN Append(clusters, cluster)
    ELSE LET r == sorted_raw[i]
         IN IF r.t - cluster[Len(cluster)].t <= gap
            THEN ClusterLoop(sorted_raw, i + 1, gap, clusters, Append(cluster, r))
            ELSE ClusterLoop(sorted_raw, i + 1, gap, Append(clusters, cluster), <<r>>)

\* max(c, key=score): the first element with the maximal score
BestOf(c) ==
    c[CHOOSE i \in 1..Len(c) :
        /\ \A j \in 1..Len(c) : c[j].score <= c[i].score
        /\ \A j \in 1..(i - 1) : c[j].score < c[i].score]

SceneOf(c) ==
    LET best == BestOf(c)
    IN [video_id |-> best.video_id, t |-> best.t, score |-> best.score,
        thumbnail_url |-> best.thumbnail_url,
        t_start |-> c[1].t, t_end |-> c[Len(c)].t + TicksPerSec]

ClusterToScenes(raw, gap) ==
    IF raw = <<>> THEN <<>>
    ELSE LET sorted_raw == SortByT(raw)
             clusters == ClusterLoop(sorted_raw, 2, gap, <<>>, <<sorted_raw[1]>>)
         IN [k \in 1..Len(clusters) |-> SceneOf(clusters[k])]

DefaultGap == 2 * TicksPerSec

\* ------------------------------------------------------------ video files
\* An uploaded file: its decoded frames (sim of the patches of each frame),
\* the number of patches patchify_frame cuts a frame of its size into, and
\* the frame period 1/fps in ticks.
VideoFiles ==
    {[period |-> FramePeriod, npatch |-> PatchesPerFrame,
      frames |-> [k \in 1..nf |-> s]] : nf \in 0..MaxFrames, s \in Scores}

\* video_frames: frame number count (from 1) has timestamp count / fps
FrameT(file, count) == count * file.period

\* ---------------------------------------------------- ClipIndex.indexVideo
\* _encode_batch: one unit vector per image of the batch, the metadata as is
EncodeBatch(pil_images, meta) ==
    [features |-> [i \in 1..Len(pil_images) |-> pil_images[i]], meta |-> meta]

\* the patches of one accepted frame, preprocessed, and their metadata
FramePatches(file, video_id, count) ==
    [p \in 1..file.npatch |->
        [src |-> video_id, t |-> FrameT(file, count), p |-> p,
         sim |-> file.frames[count]]]
FrameMeta(file, video_id, count) ==
    [p \in 1..file.npatch |->
        [video_id |-> video_id, t |-> FrameT(file, count), thumbnail_url |-> NoUrl]]

\* the frame loop (lines 90-116) from frame number count on; st holds the
\* locals last_indexed_t, frame_batch_rgb, frame_batch_meta, all_features,
\* all_meta, thumbnail_frames and indexed_count
RECURSIVE FrameLoop(_, _, _, _, _)
FrameLoop(file, video_id, freq, count, st) ==
    IF count > Len(file.frames) THEN st
    ELSE LET t == FrameT(file, count)
         IN IF t - st.last_indexed_t < freq
            THEN FrameLoop(file, video_id, freq, count + 1, st)
            ELSE LET rgb == st.frame_batch_rgb \o FramePatches(file, video_id, count)
                     meta == st.frame_batch_meta \o FrameMeta(file, video_id, count)
                     enc == EncodeBatch(rgb, meta)
                     flush == Len(rgb) >= BatchSize
                 IN FrameLoop(file, video_id, freq, count + 1,
                      [last_indexed_t |-> t,
                       frame_batch_rgb |-> IF flush THEN <<>> ELSE rgb,
                       frame_batch_meta |-> IF flush THEN <<>> ELSE meta,
                       all_features |-> IF flush THEN st.all_features \o enc.features
                                        ELSE st.all_features,
                       all_meta |-> IF flush THEN st.all_meta \o enc.meta
                                    ELSE st.all_meta,
                       thumbnail_frames |-> Append(st.thumbnail_frames, t),
                       indexed_count |-> st.indexed_count + 1])

\* lines 80-132: the locals all_features, all_meta (thumbnail urls attached)
\* and indexed_count when no call raises
IndexLocals(file, video_id, freq) ==
    LET st == FrameLoop(file, video_id, freq, 1,
                  [last_indexed_t |-> -freq, frame_batch_rgb |-> <<>>,
                   frame_batch_meta |-> <<>>, all_features |-> <<>>,
                   all_meta |-> <<>>, thumbnail_frames |-> <<>>,
                   indexed_count |-> 0])
        rest == EncodeBatch(st.frame_batch_rgb, st.frame_batch_meta)
        feats == IF st.frame_batch_rgb # <<>> THEN st.all_features \o rest.features
                 ELSE st.all_features
        metas == IF st.frame_batch_rgb # <<>> THEN st.all_meta \o rest.meta
                 ELSE st.all_meta
        thumbs == Range(st.thumbnail_frames)
    IN [all_features |-> feats,
        all_meta |-> [i \in 1..Len(metas) |->
                        [metas[i] EXCEPT !.thumbnail_url =
                            IF metas[i].t \in thumbs
                            THEN ThumbUrl(video_id, metas[i].t) ELSE NoUrl]],
        indexed_count |-> st.indexed_count]

\* freq=1.0 at the call in _index_video
IndexFreq == TicksPerSec

\* ------------------------------------------------------------------ state
VARIABLES
    videos,        \* store.videos: the ids it holds
    record,        \* the VideoRecord made for each id (it outlives its removal
                   \* from store.videos: the indexing task keeps a reference)
    file,          \* the file saved for each id
    clip_indices,  \* store.clip_indices, in insertion order
    shared,        \* _shared_clip_index: NoIndex (None) or a ClipIndex
    cidx,          \* index_features and index_metadata of each ClipIndex
    task,          \* each background task _index_video(id): position, locals
    srch,          \* the running search handler: position, locals
    response,      \* what the last search returned
    call,          \* argument of a direct call of search or _cluster_to_scenes
    ret            \* its result

vars == <<videos, record, file, clip_indices, shared, cidx, task, srch,
          response, call, ret>>
progVars == <<videos, record, file, clip_indices, shared, cidx, task, srch,
              response>>

\* A ClipIndex is named after the task whose _get_clip_index call built it.
NoIndex == 0
NoFile == [period |-> 0, npatch |-> 0, frames |-> <<>>]
Ties == {"low", "high"}

\* ClipIndex.__init__ (lines 59-60)
NewClipIndex == [index_features |-> NoneTensor, index_metadata |-> <<>>]

IdleTask == [pc |-> "none", index |-> NoIndex, features |-> NoneTensor]
IdleSearch ==
    [pc |-> "idle", n |-> 0, threshold |-> 0, size |-> 0, pos |-> 0,
     index |-> NoIndex, features |-> NoneTensor, all_results |-> <<>>,
     ready |-> {}, expect |-> <<>>]
NoResponse ==
    [status |-> "none", body |-> <<>>, n |-> 0, ready |-> {}, expect |-> <<>>]
NoCall == [op |-> "none"]

Keys(ci) == {ci[i].key : i \in 1..Len(ci)}
\* clip_indices[video_id], for a key it holds
Lookup(ci, video_id) == ci[CHOOSE i \in 1..Len(ci) : ci[i].key = video_id]
\* clip_indices[video_id] = data: in place for a key it holds, else appended
DictSet(ci, video_id, data) ==
    IF video_id \in Keys(ci)
    THEN [i \in 1..Len(ci) |-> IF ci[i].key = video_id THEN data ELSE ci[i]]
    ELSE Append(ci, data)
\* clip_indices.pop(video_id, None)
DictPop(ci, video_id) == SelectSeq(ci, LAMBDA e : e.key # video_id)

Init ==
    /\ videos = {}
    /\ record = [v \in VideoIds |-> [status |-> "none", indexed_frames |-> 0,
                                      total_frames |-> 0]]
    /\ file = [v \in VideoIds |-> NoFile]
    /\ clip_indices = <<>>
    /\ shared = NoIndex
    /\ cidx = [i \in VideoIds |-> NewClipIndex]
    /\ task = [v \in VideoIds |-> IdleTask]
    /\ srch = IdleSearch
    /\ response = NoResponse
    /\ call = NoCall
    /\ ret = NoCall

\* The handlers upload_video, delete_video and search are coroutines of one
\* event loop and do not await between their reads and writes of the stores,
\* so they do not interleave with each other; the _index_video tasks run in
\* worker threads and interleave with them and with each other.
LoopFree == srch.pc = "idle"

\* ---------------------------------------------------------- upload_video
\* a fresh uuid4 as id, the record (pending), the background task
Upload(v, f) ==
    /\ LoopFree
    /\ task[v].pc = "none"
    /\ \A u \in VideoIds : u < v => task[u].pc # "none"
    /\ file' = [file EXCEPT ![v] = f]
    /\ record' = [record EXCEPT ![v] = [status |-> "pending", indexed_frames |-> 0,
                                       total_frames |-> Len(f.frames)]]
    /\ videos' = videos \cup {v}
    /\ task' = [task EXCEPT ![v].pc = "start"]
    /\ UNCHANGED <<clip_indices, shared, cidx, srch, response, call, ret>>

\* ---------------------------------------------------------- delete_video
Delete(v) ==
    /\ LoopFree
    /\ v \in videos
    /\ videos' = videos \ {v}
    /\ clip_indices' = DictPop(clip_indices, v)
    /\ UNCHANGED <<record, file, shared, cidx, task, srch, response, call, ret>>

\* ------------------------------------------------------------ _index_video
\* lines 57-62: the record is looked up; without one the task returns
TaskStart(v) ==
    /\ task[v].pc = "start"
    /\ IF v \in videos
       THEN /\ record' = [record EXCEPT ![v].status = "indexing"]
            /\ task' = [task EXCEPT ![v].pc = "get"]
       ELSE /\ task' = [task EXCEPT ![v].pc = "returned"]
            /\ UNCHANGED record
    /\ UNCHANGED <<videos, file, clip_indices, shared, cidx, srch, response, call, ret>>

\* _get_clip_index, line 325: the test of the global
GetTest(v) ==
    /\ task[v].pc = "get"
    /\ task' = [task EXCEPT ![v].pc = IF shared = NoIndex THEN "load" ELSE "ret"]
    /\ UNCHANGED <<videos, record, file, clip_indices, shared, cidx, srch, response, call, ret>>

\* line 327: a new ClipIndex is built and stored in the global
GetLoad(v) ==
    /\ task[v].pc = "load"
    /\ shared' = v
    /\ cidx' = [cidx EXCEPT ![v] = NewClipIndex]
    /\ task' = [task EXCEPT ![v].pc = "ret"]
    /\ UNCHANGED <<videos, record, file, clip_indices, srch, response, call, ret>>

\* line 328: the global is read again and returned
GetReturn(v) ==
    /\ task[v].pc = "ret"
    /\ task' = [task EXCEPT ![v].pc = "index", ![v].index = shared]
    /\ UNCHANGED <<videos, record, file, clip_indices, shared, cidx, srch, response, call, ret>>

\* variant: the exception is not caught and the record keeps its status
IndexRaises_Uncaught(v) ==
    /\ task[v].pc = "index"
    /\ task' = [task EXCEPT ![v].pc = "raised"]
    /\ UNCHANGED <<videos, record, file, clip_indices, shared, cidx, srch, response, call, ret>>

\* indexVideo, lines 80-132, when the frame source, the embedder or the
\* thumbnail sink raises after k frames were accepted: the except clause of
\* _index_video (lines 91-94)
IndexRaises(v) ==
    /\ task[v].pc = "index"
    /\ \E k \in 0..IndexLocals(file[v], v, IndexFreq).indexed_count :
          record' = [record EXCEPT ![v].status = "error", ![v].indexed_frames = k]
    /\ task' = [task EXCEPT ![v].pc = "raised"]
    /\ UNCHANGED <<videos, file, clip_indices, shared, cidx, srch, response, call, ret>>

\* indexVideo, lines 80-132, when nothing raises: only locals and the
\* progress count change
IndexFrames(v) ==
    /\ task[v].pc = "index"
    /\ record' = [record EXCEPT ![v].indexed_frames =
                      IndexLocals(file[v], v, IndexFreq).indexed_count]
    /\ task' = [task EXCEPT ![v].pc = "cat"]
    /\ UNCHANGED <<videos, file, clip_indices, shared, cidx, srch, response, call, ret>>

\* lines 135-136 (and 139: with no features the index is left as it is)
IndexCat(v) ==
    /\ task[v].pc = "cat"
    /\ LET loc == IndexLocals(file[v], v, IndexFreq)
       IN IF loc.all_features # <<>>
          THEN /\ cidx' = [cidx EXCEPT ![task[v].index].index_features =
                               Tensor(loc.all_features)]
               /\ task' = [task EXCEPT ![v].pc = "meta"]
          ELSE /\ task' = [task EXCEPT ![v].pc = "pub80"]
               /\ UNCHANGED cidx
    /\ UNCHANGED <<videos, record, file, clip_indices, shared, srch, response, call, ret>>

\* line 137
IndexMeta(v) ==
    /\ task[v].pc = "meta"
    /\ cidx' = [cidx EXCEPT ![task[v].index].index_metadata =
                    IndexLocals(file[v], v, IndexFreq).all_meta]
    /\ task' = [task EXCEPT ![v].pc = "pub80"]
    /\ UNCHANGED <<videos, record, file, clip_indices, shared, srch, response, call, ret>>

\* line 80: index.index_features is read
PublishRead(v) ==
    /\ task[v].pc = "pub80"
    /\ task' = [task EXCEPT ![v].pc = "pub81",
                            ![v].features = cidx[task[v].index].index_features]
    /\ UNCHANGED <<videos, record, file, clip_indices, shared, cidx, srch, response, call, ret>>

\* the store published under video_id (lines 79-82)
Published(video_id, features, metadata) ==
    [key |-> video_id, index_features |-> features, index_metadata |-> metadata]

\* lines 81 and 79: index.index_metadata is read and the store is published
Publish(v) ==
    /\ task[v].pc = "pub81"
    /\ clip_indices' = DictSet(clip_indices, v,
                          Published(v, task[v].features,
                                    cidx[task[v].index].index_metadata))
    /\ task' = [task EXCEPT ![v].pc = "fin84", ![v].features = NoneTensor]
    /\ UNCHANGED <<videos, record, file, shared, cidx, srch, response, call, ret>>

\* line 84
FinishTest(v) ==
    /\ task[v].pc = "fin84"
    /\ task' = [task EXCEPT ![v].pc =
                   IF cidx[task[v].index].index_features.isNone THEN "ready"
                   ELSE "fin85"]
    /\ UNCHANGED <<videos, record, file, clip_indices, shared, cidx, srch, response, call, ret>>

\* lines 85-86: index.index_features is read again; None has no shape, and
\* the AttributeError is caught at line 91
FinishCount(v) ==
    /\ task[v].pc = "fin85"
    /\ LET f == cidx[task[v].index].index_features
       IN IF f.isNone
          THEN /\ record' = [record EXCEPT ![v].status = "error"]
               /\ task' = [task EXCEPT ![v].pc = "raised85"]
          ELSE /\ record' = [record EXCEPT ![v].indexed_frames = NumVectors(f),
                                           ![v].total_frames = NumVectors(f)]
               /\ task' = [task EXCEPT ![v].pc = "ready"]
    /\ UNCHANGED <<videos, file, clip_indices, shared, cidx, srch, response, call, ret>>

\* line 88
MarkReady(v) ==
    /\ task[v].pc = "ready"
    /\ record' = [record EXCEPT ![v].status = "ready"]
    /\ task' = [task EXCEPT ![v].pc = "done"]
    /\ UNCHANGED <<videos, file, clip_indices, shared, cidx, srch, response, call, ret>>

IndexVideoTask(v) ==
    \/ TaskStart(v) \/ GetTest(v) \/ GetLoad(v) \/ GetReturn(v)
    \/ IndexRaises(v) \/ IndexFrames(v) \/ IndexCat(v) \/ IndexMeta(v)
    \/ PublishRead(v) \/ Publish(v) \/ FinishTest(v) \/ FinishCount(v)
    \/ MarkReady(v)

\* ------------------------------------------------------------------ search
\* SearchResult(...) of a scene: the model class has no t_start, t_end or
\* duration field and pydantic drops them; the title stands for the record
ToResult(s, title) ==
    [video_id |-> s.video_id, timestamp |-> s.t, score |-> s.score,
     thumbnail_url |-> s.thumbnail_url, video_title |-> title]
ToResults(scenes, title) == [k \in 1..Len(scenes) |-> ToResult(scenes[k], title)]

\* all_results.sort(key=score, reverse=True): stable, highest score first
RECURSIVE InsertByScore(_, _)
InsertByScore(s, r) ==
    IF s = <<>> THEN <<r>>
    ELSE IF s[Len(s)].score >= r.score THEN Append(s, r)
    ELSE Append(InsertByScore(SubSeq(s, 1, Len(s) - 1), r), s[Len(s)])

RECURSIVE SortByScore(_)
SortByScore(rs) ==
    IF rs = <<>> THEN <<>>
    ELSE InsertByScore(SortByScore(SubSeq(rs, 1, Len(rs) - 1)), rs[Len(rs)])

\* all_results[: n]
Truncate(rs, n) == SubSeq(rs, 1, Min(n, Len(rs)))

\* the scenes of one published store: query with n * 5, then cluster
StoreScenes(data, n, threshold, tie) ==
    ClusterToScenes(ClipSearch(data.index_features, data.index_metadata,
                               n * FanOut, threshold, tie).hits, DefaultGap)

Respond(status, body) ==
    [status |-> status, body |-> body, n |-> srch.n, ready |-> srch.ready,
     expect |-> srch.expect]

\* lines 241-244
SearchBegin(n, threshold) ==
    /\ srch.pc = "idle"
    /\ IF clip_indices = <<>>
       THEN /\ response' = [NoResponse EXCEPT !.status = "ok", !.n = n]
            /\ UNCHANGED srch
       ELSE /\ response' = NoResponse
            /\ srch' = [IdleSearch EXCEPT !.pc = "next", !.n = n,
                                          !.threshold = threshold,
                                          !.size = Len(clip_indices)]
    /\ UNCHANGED <<videos, record, file, clip_indices, shared, cidx, task, call, ret>>

\* the dict iterator raises RuntimeError when the dict has changed size
SearchDictChanged ==
    /\ srch.pc = "next"
    /\ Len(clip_indices) # srch.size
    /\ response' = Respond("error", <<>>)
    /\ srch' = IdleSearch
    /\ UNCHANGED <<videos, record, file, clip_indices, shared, cidx, task, call, ret>>

\* lines 246-254: the next item; a video without a ready record is skipped.
\* _get_clip_index finds the global set: a record is ready only after its
\* task's own _get_clip_index call.  ready records, for the properties, the
\* videos found ready.
SearchNext ==
    /\ srch.pc = "next"
    /\ Len(clip_indices) = srch.size
    /\ srch.pos < Len(clip_indices)
    /\ LET item == clip_indices[srch.pos + 1]
       IN IF item.key \notin videos \/ record[item.key].status # "ready"
          THEN srch' = [srch EXCEPT !.pos = srch.pos + 1]
          ELSE srch' = [srch EXCEPT !.pos = srch.pos + 1, !.pc = "set255",
                           !.index = shared,
                           !.ready = srch.ready \cup {item.key}]
    /\ UNCHANGED <<videos, record, file, clip_indices, shared, cidx, task, response, call, ret>>

\* line 255
SearchSetFeatures ==
    /\ srch.pc = "set255"
    /\ cidx' = [cidx EXCEPT ![srch.index].index_features =
                    clip_indices[srch.pos].index_features]
    /\ srch' = [srch EXCEPT !.pc = "set256"]
    /\ UNCHANGED <<videos, record, file, clip_indices, shared, task, response, call, ret>>

\* line 256
SearchSetMetadata ==
    /\ srch.pc = "set256"
    /\ cidx' = [cidx EXCEPT ![srch.index].index_metadata =
                    clip_indices[srch.pos].index_metadata]
    /\ srch' = [srch EXCEPT !.pc = "read172"]
    /\ UNCHANGED <<videos, record, file, clip_indices, shared, task, response, call, ret>>

\* ClipIndex.search, lines 162-172: self.index_features is read; None gives
\* no hits, hence no scenes
SearchReadFeatures ==
    /\ srch.pc = "read172"
    /\ LET f == cidx[srch.index].index_features
       IN srch' = IF f.isNone THEN [srch EXCEPT !.pc = "next"]
                  ELSE [srch EXCEPT !.pc = "walk", !.features = f]
    /\ UNCHANGED <<videos, record, file, clip_indices, shared, cidx, task, response, call, ret>>

\* ClipIndex.search, lines 174-201, with self.index_metadata as it is now,
\* then lines 260-273; an exception of topk or of the list index ends the
\* handler.  expect records, for the properties, the scenes of the item's
\* own store under the same order of ties (none for a store without features).
SearchWalk(tie) ==
    /\ srch.pc = "walk"
    /\ LET r == SearchFrom(srch.features, cidx[srch.index].index_metadata,
                           srch.n * FanOut, srch.threshold, tie)
           item == clip_indices[srch.pos]
           key == item.key
       IN IF r.err
          THEN /\ response' = Respond("error", <<>>)
               /\ srch' = IdleSearch
          ELSE /\ srch' = [srch EXCEPT !.pc = "next", !.features = NoneTensor,
                              !.all_results = srch.all_results \o
                                  ToResults(ClusterToScenes(r.hits, DefaultGap), key),
                              !.expect = srch.expect \o
                                  ToResults(StoreScenes(item, srch.n, srch.threshold, tie),
                                            key)]
               /\ UNCHANGED response
    /\ UNCHANGED <<videos, record, file, clip_indices, shared, cidx, task, call, ret>>

\* lines 275-277, after the last item
SearchReturn ==
    /\ srch.pc = "next"
    /\ Len(clip_indices) = srch.size
    /\ srch.pos = Len(clip_indices)
    /\ response' = Respond("ok", Truncate(SortByScore(srch.all_results), srch.n))
    /\ srch' = IdleSearch
    /\ UNCHANGED <<videos, record, file, clip_indices, shared, cidx, task, call, ret>>

SearchHandler ==
    \/ \E n \in 1..MaxN, threshold \in Thresholds : SearchBegin(n, threshold)
    \/ SearchDictChanged
    \/ SearchNext
    \/ SearchSetFeatures \/ SearchSetMetadata \/ SearchReadFeatures
    \/ \E tie \in Ties : SearchWalk(tie)
    \/ SearchReturn

Next ==
    \/ \E v \in VideoIds, f \in VideoFiles : Upload(v, f)
    \/ \E v \in VideoIds : Delete(v)
    \/ \E v \in VideoIds : IndexVideoTask(v)
    \/ SearchHandler

Spec == Init /\ [][Next]_vars

\* ------------------------------------------- direct calls of ClipIndex.search
\* The stores a query is tried on: what indexVideo leaves in a ClipIndex for
\* one video, for any sampling interval.  Frames have increasing timestamps;
\* a frame gives one vector per patch (1 or BigFrame patches here) and a
\* ClipIndex without vectors has index_features None.
QueryTimes == {10, 12, 15}
PatchCounts == {1, BigFrame}
QueryThresholds == 1..(MaxScore + 1)

\* the frames of a store: for each timestamp of ts, sim and patch count
StoreFrames(ts) == [ts -> [sim : Scores, cnt : PatchCounts]]

\* the timestamps of ts in increasing order
RECURSIVE Ascending(_)
Ascending(ts) ==
    IF ts = {} THEN <<>>
    ELSE LET m == CHOOSE x \in ts : \A y \in ts : x <= y
         IN <<m>> \o Ascending(ts \ {m})

RECURSIVE StoreRows(_, _, _)
StoreRows(fr, order, k) ==
    IF k > Len(order) THEN <<>>
    ELSE [p \in 1..fr[order[k]].cnt |->
             [src |-> 1, t |-> order[k], p |-> p, sim |-> fr[order[k]].sim]]
         \o StoreRows(fr, order, k + 1)

StoreOf(fr) ==
    LET rows == StoreRows(fr, Ascending(DOMAIN fr), 1)
    IN IF rows = <<>> THEN NewClipIndex
       ELSE [index_features |-> Tensor(rows),
             index_metadata |-> [i \in 1..Len(rows) |->
                 [video_id |-> 1, t |-> rows[i].t,
                  thumbnail_url |-> ThumbUrl(1, rows[i].t)]]]

QueryInit ==
    /\ videos = {}
    /\ record = [v \in VideoIds |-> [status |-> "none", indexed_frames |-> 0,
                                      total_frames |-> 0]]
    /\ file = [v \in VideoIds |-> NoFile]
    /\ clip_indices = <<>>
    /\ shared = NoIndex
    /\ cidx = [i \in VideoIds |-> NewClipIndex]
    /\ task = [v \in VideoIds |-> IdleTask]
    /\ srch = IdleSearch
    /\ response = NoResponse
    /\ ret = NoCall
    /\ \E ts \in SUBSET QueryTimes : \E fr \in StoreFrames(ts) :
       \E n \in 0..MaxQN, threshold \in QueryThresholds, tie \in Ties :
          call = [op |-> "search", index |-> StoreOf(fr), n |-> n,
                  threshold |-> threshold, tie |-> tie]

\* index.search(query, n, threshold) on the index of call
QueryCall ==
    /\ call.op = "search"
    /\ ret = NoCall
    /\ ret' = [op |-> "search",
               res |-> ClipSearch(call.index.index_features,
                                  call.index.index_metadata,
                                  call.n, call.threshold, call.tie)]
    /\ UNCHANGED <<progVars, call>>

QueryNext == QueryCall

SpecQuery == QueryInit /\ [][QueryNext]_vars

\* ---------------------------------------- direct calls of _cluster_to_scenes
ClusterTimes == {0, 10, 19, 50}
ClusterGaps == {TicksPerSec, DefaultGap}
HitsOf(ts, ss) ==
    [i \in 1..Len(ts) |-> [video_id |-> 1, t |-> ts[i], score |-> ss[i],
                           thumbnail_url |-> ThumbUrl(1, ts[i])]]

ClusterInit ==
    /\ videos = {}
    /\ record = [v \in VideoIds |-> [status |-> "none", indexed_frames |-> 0,
                                      total_frames |-> 0]]
    /\ file = [v \in VideoIds |-> NoFile]
    /\ clip_indices = <<>>
    /\ shared = NoIndex
    /\ cidx = [i \in VideoIds |-> NewClipIndex]
    /\ task = [v \in VideoIds |-> IdleTask]
    /\ srch = IdleSearch
    /\ response = NoResponse
    /\ ret = NoCall
    /\ \E len \in 0..MaxHits : \E ts \in [1..len -> ClusterTimes] :
       \E ss \in [1..len -> Scores], gap \in ClusterGaps :
          call = [op |-> "cluster", raw |-> HitsOf(ts, ss), gap |-> gap]

\* _cluster_to_scenes(raw, gap) on the hits of call
ClusterCall ==
    /\ call.op = "cluster"
    /\ ret = NoCall
    /\ ret' = [op |-> "cluster", scenes |-> ClusterToScenes(call.raw, call.gap)]
    /\ UNCHANGED <<progVars, call>>

ClusterNext == ClusterCall

SpecCluster == ClusterInit /\ [][ClusterNext]_vars

\* ------------------------------------------ the frame sampling of indexVideo
\* The frame streams the sampling is tried on: any strictly increasing
\* timestamps up to MaxTime (video_frames gives count / fps, a constant rate),
\* and any sampling interval up to MaxInterval.
SampleTimes == 0..MaxTime
SampleIntervals == 0..MaxInterval

\* variant: the cursor is not advanced to the accepted frame
RECURSIVE SampleLoop_CursorStays(_, _, _, _, _)
SampleLoop_CursorStays(ts, freq, count, last_indexed_t, accepted) ==
    IF count > Len(ts) THEN accepted
    ELSE IF ts[count] - last_indexed_t < freq
         THEN SampleLoop_CursorStays(ts, freq, count + 1, last_indexed_t, accepted)
         ELSE SampleLoop_CursorStays(ts, freq, count + 1, last_indexed_t,
                                     Append(accepted, count))

\* lines 90-93 and 99 on the frames with timestamps ts, from frame number
\* count on: the cursor last_indexed_t and the numbers of the frames accepted
\* so far (those appended to thumbnail_frames)
RECURSIVE SampleLoop(_, _, _, _, _)
SampleLoop(ts, freq, count, last_indexed_t, accepted) ==
    IF count > Len(ts) THEN accepted
    ELSE IF ts[count] - last_indexed_t < freq
         THEN SampleLoop(ts, freq, count + 1, last_indexed_t, accepted)
         ELSE SampleLoop(ts, freq, count + 1, ts[count], Append(accepted, count))

\* line 80: the cursor starts at -freq
SampleFrames(ts, freq) == SampleLoop(ts, freq, 1, -freq, <<>>)

SampleInit ==
    /\ videos = {}
    /\ record = [v \in VideoIds |-> [status |-> "none", indexed_frames |-> 0,
                                      total_frames |-> 0]]
    /\ file = [v \in VideoIds |-> NoFile]
    /\ clip_indices = <<>>
    /\ shared = NoIndex
    /\ cidx = [i \in VideoIds |-> NewClipIndex]
    /\ task = [v \in VideoIds |-> IdleTask]
    /\ srch = IdleSearch
    /\ response = NoResponse
    /\ ret = NoCall
    /\ \E ts \in SUBSET SampleTimes, freq \in SampleIntervals :
          call = [op |-> "sample", ts |-> Ascending(ts), freq |-> freq]

SampleCall ==
    /\ call.op = "sample"
    /\ ret = NoCall
    /\ ret' = [op |-> "sample", accepted |-> SampleFrames(call.ts, call.freq)]
    /\ UNCHANGED <<progVars, call>>

SampleNext == SampleCall

SpecSample == SampleInit /\ [][SampleNext]_vars

\* ====================================================== properties, queries
Queried == ret.op = "search"
QHits == ret.res.hits
QRows == call.index.index_features.rows
QMeta == call.index.index_metadata
\* the stored vectors among the top k by similarity: fewer than k are
\* strictly more similar
InTop(i, k) == Cardinality({j \in 1..Len(QRows) : QRows[j].sim > QRows[i].sim}) < k
\* a stored vector in the top k whatever the order of equal similarities:
\* fewer than k others are at least as similar
SureTop(i, k) ==
    Cardinality({j \in 1..Len(QRows) : j # i /\ QRows[j].sim >= QRows[i].sim}) < k
Near(t1, t2) == 2 * Abs(t1 - t2) < TicksPerSec

\* C4: no hit of a query has a score strictly below the threshold, also
\* when fewer than n hits are returned.
C4_NoHitBelowThreshold ==
    Queried => /\ ~ret.res.err
               /\ \A i \in 1..Len(QHits) : QHits[i].score >= call.threshold

\* a query that returned a hit, fewer than n of them, from a store holding
\* a vector below the threshold that is not near any hit
C4_Witness ==
    /\ Queried
    /\ Len(QHits) >= 1 /\ Len(QHits) < call.n
    /\ \E i \in 1..Len(QRows) :
          /\ QRows[i].sim < call.threshold
          /\ \A h \in 1..Len(QHits) : ~Near(QRows[i].t, QHits[h].t)

\* C5: no two hits of a query are less than 0.5 s apart, and a candidate is
\* left out for being near a hit without ending the walk: when fewer than n
\* hits are returned, every vector at or above the threshold that is in the
\* top min(10n, size) under any order of ties is less than 0.5 s from a hit
\* that scores at least as much.
C5_NearDuplicatesSuppressed ==
    Queried =>
       /\ \A i, j \in 1..Len(QHits) : i # j => ~Near(QHits[i].t, QHits[j].t)
       /\ Len(QHits) < call.n =>
             \A i \in 1..Len(QRows) :
                (SureTop(i, TopKSize(call.n, QMeta)) /\ QRows[i].sim >= call.threshold)
                => \E h \in 1..Len(QHits) :
                      /\ Near(QMeta[i].t, QHits[h].t)
                      /\ QHits[h].score >= QRows[i].sim

\* two hits, and between them in score order a stored vector that was left
\* out for being near the first hit
C5_Witness ==
    /\ Queried
    /\ Len(QHits) = 2
    /\ \E i \in 1..Len(QRows) :
          /\ QRows[i].sim > QHits[2].score
          /\ QRows[i].t # QHits[1].t
          /\ Near(QRows[i].t, QHits[1].t)

\* C6: a query returns at most n hits, in non-increasing score order, each
\* the entry of a stored vector among the top min(10n, size) by similarity,
\* and a store without vectors gives no hit and no error.
C6_TopHitsInOrder ==
    Queried =>
       /\ ~ret.res.err
       /\ Len(QHits) <= call.n
       /\ \A i \in 1..(Len(QHits) - 1) : QHits[i].score >= QHits[i + 1].score
       /\ \A h \in 1..Len(QHits) :
             \E i \in 1..Len(QRows) :
                /\ InTop(i, Min(OverFetch * call.n, Len(QRows)))
                /\ QRows[i].sim = QHits[h].score
                /\ QMeta[i].t = QHits[h].t
                /\ QMeta[i].video_id = QHits[h].video_id
                /\ QMeta[i].thumbnail_url = QHits[h].thumbnail_url
       /\ Len(QRows) = 0 => QHits = <<>>

\* fewer than n hits although a vector at or above the threshold is far from
\* every hit: it lies outside the top 10n
C6_Witness ==
    /\ Queried
    /\ Len(QHits) >= 1 /\ Len(QHits) < call.n
    /\ Len(QRows) > OverFetch * call.n
    /\ \E i \in 1..Len(QRows) :
          /\ QRows[i].sim >= call.threshold
          /\ \A h \in 1..Len(QHits) : ~Near(QRows[i].t, QHits[h].t)

\* an empty store was queried with n > 0
C6_WitnessEmpty == Queried /\ call.index.index_features.isNone /\ call.n > 0

\* ==================================================== properties, clustering
Clustered == ret.op = "cluster"
Scenes == ret.scenes
\* the hits of scene k: those within its time extent
Members(k) ==
    {i \in 1..Len(call.raw) :
        /\ Scenes[k].t_start <= call.raw[i].t
        /\ call.raw[i].t <= Scenes[k].t_end - TicksPerSec}
MemberTimes(k) == {call.raw[i].t : i \in Members(k)}
TopScore(k) ==
    CHOOSE x \in {call.raw[i].score : i \in Members(k)} :
        \A i \in Members(k) : call.raw[i].score <= x

\* C7: the scenes are, in ascending time order, the maximal runs of the
\* time-sorted hits in which consecutive timestamps differ by at most gap;
\* a scene starts at its earliest member, ends 1.0 s after its latest, and
\* carries timestamp, score and thumbnail of its first best-scoring member.
C7_ScenesAreMaximalRuns ==
    Clustered =>
       /\ (Scenes = <<>>) <=> (call.raw = <<>>)
       \* every hit lies in a scene
       /\ \A i \in 1..Len(call.raw) : \E k \in 1..Len(Scenes) : i \in Members(k)
       \* ascending, and separated by more than gap
       /\ \A k \in 1..(Len(Scenes) - 1) :
             Scenes[k + 1].t_start - (Scenes[k].t_end - TicksPerSec) > call.gap
       /\ \A k \in 1..Len(Scenes) :
             /\ Scenes[k].t_start \in MemberTimes(k)
             /\ Scenes[k].t_end - TicksPerSec \in MemberTimes(k)
             \* a run: each later timestamp is within gap of an earlier one
             /\ \A x \in MemberTimes(k) :
                   x # Scenes[k].t_start =>
                      \E y \in MemberTimes(k) : y < x /\ x - y <= call.gap
             \* the representative
             /\ Scenes[k].score = TopScore(k)
             /\ \E i \in Members(k) :
                   /\ call.raw[i].score = TopScore(k)
                   /\ call.raw[i].t = Scenes[k].t
                   /\ call.raw[i].thumbnail_url = Scenes[k].thumbnail_url
                   /\ call.raw[i].video_id = Scenes[k].video_id
                   /\ \A j \in Members(k) :
                         call.raw[j].score = TopScore(k) => call.raw[i].t <= call.raw[j].t

\* the example: hits at 0.0, 1.0, 1.9 and 5.0 s with gap 2.0 s give the
\* scenes (0.0, 2.9) and (5.0, 6.0)
C7_Witness ==
    /\ Clustered
    /\ call.gap = 2 * TicksPerSec
    /\ Len(call.raw) = 4
    /\ {call.raw[i].t : i \in 1..4} = {0, TicksPerSec, 19, 5 * TicksPerSec}
    /\ Len(Scenes) = 2
    /\ Scenes[1].t_start = 0 /\ Scenes[1].t_end = 19 + TicksPerSec
    /\ Scenes[2].t_start = 5 * TicksPerSec /\ Scenes[2].t_end = 6 * TicksPerSec

\* ===================================================== properties, program
\* what V's own pipeline run produces: the locals of indexVideo on V's file
OwnBuild(v) == IndexLocals(file[v], v, IndexFreq)
AcceptsNoFrame(v) == OwnBuild(v).indexed_count = 0
HasPublished(v) == task[v].pc \in {"fin84", "fin85", "ready", "done", "raised85"}

\* C1: every store published in clip_indices has as many vectors as entries.
C1_VectorsMatchEntries ==
    \A i \in 1..Len(clip_indices) :
        NumVectors(clip_indices[i].index_features)
            = Len(clip_indices[i].index_metadata)

\* C2: a build that accepts no frame publishes an empty store and does not
\* fail, whatever used the shared ClipIndex before.
C2_EmptyBuildPublishesEmptyStore ==
    \A v \in VideoIds :
        (HasPublished(v) /\ AcceptsNoFrame(v)) =>
            /\ task[v].pc # "raised85"
            /\ v \in Keys(clip_indices) =>
                  /\ NumVectors(Lookup(clip_indices, v).index_features) = 0
                  /\ Lookup(clip_indices, v).index_metadata = <<>>

\* C3: the store published under clip_indices[V] is exactly the vectors and
\* entries of V's own pipeline run; every entry in it has video_id V.
C3_StoreIsOwnBuild ==
    \A i \in 1..Len(clip_indices) :
        LET e == clip_indices[i]
        IN /\ e.index_features.rows = OwnBuild(e.key).all_features
           /\ e.index_metadata = OwnBuild(e.key).all_meta
           /\ \A k \in 1..Len(e.index_metadata) :
                 e.index_metadata[k].video_id = e.key

\* C8: a global search returns without error the n highest-scoring scenes
\* of the videos it found ready, highest first, and no scene of any other
\* video.
C8_GlobalTopScenes ==
    response.status # "none" =>
       /\ response.status = "ok"
       /\ \A k \in 1..Len(response.body) :
             /\ response.body[k].video_id \in response.ready
             /\ response.body[k] \in Range(response.expect)
             /\ Cardinality({j \in 1..Len(response.expect) :
                   response.expect[j].score > response.body[k].score}) < k
       /\ \A k \in 1..(Len(response.body) - 1) :
             response.body[k].score >= response.body[k + 1].score
       /\ Len(response.body) = Min(response.n, Len(response.expect))

\* indexVideo has raised for V (frame source, embedder or thumbnail sink)
BuildFailed(v) == task[v].pc = "raised"
\* after any step: a failed V has status "error" and no store; the step in
\* which V fails changes no store, no ClipIndex and no other record
FailedStep ==
    \A v \in VideoIds :
       /\ BuildFailed(v)' =>
             /\ record'[v].status = "error"
             /\ v \notin Keys(clip_indices')
       /\ (~BuildFailed(v) /\ BuildFailed(v)') =>
             /\ clip_indices' = clip_indices
             /\ cidx' = cidx
             /\ videos' = videos
             /\ \A u \in VideoIds \ {v} : record'[u] = record[u]

\* C9: when indexVideo raises for V, V's status is "error" from then on and
\* never "ready", no store is published under V, and the stores and the
\* statuses of all other videos are unchanged by the failure.
C9_FailedBuildIsLocal == [][FailedStep]_vars

\* V's build has failed after accepting a frame while another video is
\* ready with its store published
C9_Witness ==
    \E v, u \in VideoIds :
       /\ BuildFailed(v) /\ record[v].indexed_frames > 0
       /\ u # v /\ u \in Keys(clip_indices) /\ record[u].status = "ready"

\* V was uploaded (ids are never reused) and store.videos no longer holds it
Deleted(v) == task[v].pc # "none" /\ v \notin videos

\* C10: once delete(V) has completed, clip_indices holds no store for V in
\* any later state, also when V's build was pending or in flight.
C10_DeletedStaysGone ==
    \A v \in VideoIds : Deleted(v) => v \notin Keys(clip_indices)

\* a step of the search handler
SearchStep == srch' # srch
\* V's build has assigned its vectors (line 136) and line 80 has not read them
FeaturesAwaitRead(v) ==
    ~AcceptsNoFrame(v) /\ task[v].pc \in {"meta", "pub80"}
\* V's build has assigned its entries (line 137) and line 81 has not read them
MetadataAwaitRead(v) ==
    ~AcceptsNoFrame(v) /\ task[v].pc \in {"pub80", "pub81"}
\* after any step, the results collected for the videos evaluated so far are
\* the scenes of their own published stores; a step of the search changes no
\* published store and no field of a ClipIndex that a running build has
\* assigned and not yet read for publication
SearchIsolatedStep ==
    /\ srch'.all_results = srch'.expect
    /\ SearchStep =>
          /\ clip_indices' = clip_indices
          /\ \A v \in VideoIds :
                /\ FeaturesAwaitRead(v) =>
                      cidx'[task[v].index].index_features
                          = cidx[task[v].index].index_features
                /\ MetadataAwaitRead(v) =>
                      cidx'[task[v].index].index_metadata
                          = cidx[task[v].index].index_metadata

\* C11: a search that runs while another video is being indexed evaluates
\* each ready video V against V's own published store only, so every hit
\* returned for V is an entry of V's store, and the search changes neither
\* a published store nor what the running build publishes.
C11_SearchIsolatedFromBuild == [][SearchIsolatedStep]_vars

\* ==================================================== properties, sampling
Sampled == ret.op = "sample"
Accepted == ret.accepted
\* the timestamp of the k-th accepted frame
AcceptedT(k) == call.ts[Accepted[k]]
\* successive frames of the stream are p apart
ConstantRate(p) ==
    /\ Len(call.ts) >= 2
    /\ \A i \in 1..(Len(call.ts) - 1) : call.ts[i + 1] - call.ts[i] = p

\* C12: for any frame stream with strictly increasing timestamps and any
\* sampling interval, the accepted frames are exactly the first frame and,
\* after each accepted frame, the earliest later frame at least the interval
\* after it; successive accepted frames are never less than the interval
\* apart and, at constant frame rate, never more than the interval plus one
\* frame period apart.
C12_SamplingPolicy ==
    Sampled =>
       /\ call.ts = <<>> => Accepted = <<>>
       /\ call.ts # <<>> => (Accepted # <<>> /\ Accepted[1] = 1)
       /\ \A k \in 1..Len(Accepted) : Accepted[k] \in 1..Len(call.ts)
       /\ \A k \in 1..(Len(Accepted) - 1) :
             /\ Accepted[k + 1] > Accepted[k]
             /\ AcceptedT(k + 1) - AcceptedT(k) >= call.freq
             /\ \A i \in (Accepted[k] + 1)..(Accepted[k + 1] - 1) :
                   call.ts[i] - AcceptedT(k) < call.freq
             /\ \A p \in 1..MaxTime :
                   ConstantRate(p) => AcceptedT(k + 1) - AcceptedT(k) <= call.freq + p
       /\ Accepted # <<>> =>
             \A i \in (Accepted[Len(Accepted)] + 1)..Len(call.ts) :
                call.ts[i] - AcceptedT(Len(Accepted)) < call.freq

\* a stream of constant rate, first frame at one period, is sampled with an
\* interval that is no multiple of the period: a frame is skipped and two
\* accepted frames are more than the interval apart
C12_Witness ==
    /\ Sampled
    /\ \E p \in 2..MaxTime :
          /\ ConstantRate(p)
          /\ call.ts[1] = p
          /\ call.freq > p
          /\ Len(Accepted) >= 2
          /\ Len(Accepted) < Len(call.ts)
          /\ AcceptedT(2) - AcceptedT(1) > call.freq
====
